---- MODULE Spec2Model ----
(***************************************************************************)
(* Model of the single-file storefront frontend src/app.jsx:               *)
(* AuthProvider (session), CartProvider (cart), the routed page views and  *)
(* the requests they issue through axios.                                  *)
(*                                                                         *)
(* React is modelled by its commit cycle: an event handler or a promise    *)
(* continuation updates hook state, then the tree renders (phase           *)
(* "render"), then the passive effects of that commit run, children        *)
(* before parents (phase "childEffects", then "authEffect"), and a state   *)
(* update made by an effect causes one more render.  User events and       *)
(* network responses are handled only between commits (phase "idle").      *)
(* Updates made in one event handler, or in promise continuations that run *)
(* back to back, are batched into one render (React 18, which the setup    *)
(* in the file's header comment installs).                                 *)
(*                                                                         *)
(* Nothing in the file calls CartContext's add; the cart operations are    *)
(* modelled as the interface the provider exposes to its consumers.        *)
(***************************************************************************)
EXTENDS Integers, Sequences, FiniteSets, Bags, TLC

(* ---------------- bounds ---------------- *)
NumTokens == 1        \* distinct tokens the backend may hand out
NumIds == 2           \* distinct product ids
MaxQty == 2           \* cap on |quantity| of a cart line
MaxInflight == 2      \* cap on requests in flight at once

Null == 0                               \* JS null (token, product)
Tokens == 1..NumTokens
Ids == 1..NumIds
Qtys == {0 - 1, 0, 1}                   \* qty arguments a caller may pass; 1 is the default
Pages == {"home", "products", "detail", "cart", "checkout", "auth", "admin"}
Urls == {"/download/1"}
ServerErrors == {"server says no"}

NoHeader == [scheme |-> "none", cred |-> Null]
\* 'Bearer ' + token  (lines 60, 315, 321); 'Bearer ' + null is "Bearer null"
Bearer(t) == [scheme |-> "Bearer", cred |-> t]

NoUser == "null"
PlaceholderUser == "user@me"            \* { email: 'user@me' }, line 59

VARIABLES
    token,          \* AuthProvider state hook `token`
    user,           \* AuthProvider state hook `user`
    lsToken,        \* localStorage['token']
    authHeader,     \* axios.defaults.headers.common['Authorization']
    ctx,            \* AuthContext value of the last render
    effToken,       \* dependency [token] seen by the last run of the effect
    phase,          \* position in the commit cycle
    page,           \* routed page
    routeId,        \* :id of /product/:id
    pageEffect,     \* the page's effect is pending for this commit
    mode,           \* AuthPage state hook `mode`
    authResult,     \* result last returned by login / register to submit
    items,          \* CartProvider state hook `items`
    hist,           \* history: the last cart operation and `items` before it
    pdProduct,      \* ProductDetail state hook `product`
    pdLoading,      \* ProductDetail state hook `loading`
    toastMsg,       \* ProductDetail's useToast `msg`
    pdFetched,      \* outcome of the fetch issued by the latest run of ProductDetail's effect
    adminProducts,  \* AdminPage state hook `products`
    adminLoading,   \* AdminPage state hook `loading`
    alertMsg,       \* text of the last window.alert
    href,           \* window.location.href ("app" while on the app)
    net             \* bag of requests in flight

vars == <<token, user, lsToken, authHeader, ctx, effToken, phase, page, routeId,
          pageEffect, mode, authResult, items, hist, pdProduct, pdLoading, toastMsg,
          pdFetched, adminProducts, adminLoading, alertMsg, href, net>>

authVars == <<token, user, lsToken, authHeader>>
pdVars == <<pdProduct, pdLoading, toastMsg, pdFetched>>
adminVars == <<adminProducts, adminLoading>>
cartVars == <<items, hist>>

(* ---------------- requests ---------------- *)
\* k: which call site issued it; id: product id in the url or body;
\* live: the issuing component instance is still mounted;
\* cur: issued by the latest run of ProductDetail's effect;
\* cred: the Authorization header the request carries.
Req(k, id, live, cur, cred) ==
    [k |-> k, id |-> id, live |-> live, cur |-> cur, cred |-> cred]

Issue(n, r) == n (+) SetToBag({r})
Consume(n, r) == n (-) SetToBag({r})
InFlight(n) == BagCardinality(n)
Room == InFlight(net) < MaxInflight

\* requests issued by the page component `from`
KindsOf(from) ==
    CASE from = "detail" -> {"pdGet", "buyNow"}
      [] from = "admin" -> {"adminLoad", "create", "upload"}
      [] from \in {"home", "products"} -> {"list"}
      [] from = "checkout" -> {"doCheckout"}
      [] from = "auth" -> {"login", "register"}
      [] OTHER -> {}

\* a component unmounts: its requests stay in flight (nothing is cancelled),
\* but their setState calls no longer reach a mounted instance
Orphan(r, ks) == IF r.k \in ks THEN [r EXCEPT !.live = FALSE, !.cur = FALSE] ELSE r
Leave(n, from) == BagOfAll(LAMBDA r : Orphan(r, KindsOf(from)), n)

\* a newer run of ProductDetail's effect supersedes the earlier fetches
Stale(r) == IF r.k = "pdGet" THEN [r EXCEPT !.cur = FALSE] ELSE r
Supersede(n) == BagOfAll(Stale, n)

(* ---------------- cart (CartProvider) ---------------- *)
Line(pid, qty) == [id |-> pid, qty |-> qty]      \* { ...product, qty }
find(prev, pid) == \E i \in 1..Len(prev) : prev[i].id = pid

\* a cart that pushes a line on every add
addAppends(prev, pid, qty) == Append(prev, Line(pid, qty))

add(prev, pid, qty) ==
    IF find(prev, pid)
    THEN [i \in 1..Len(prev) |->
            IF prev[i].id = pid THEN [prev[i] EXCEPT !.qty = @ + qty] ELSE prev[i]]
    ELSE Append(prev, Line(pid, qty))

\* a filter with the comparison inverted
removeInverted(prev, id) == SelectSeq(prev, LAMBDA p : p.id = id)

remove(prev, id) == SelectSeq(prev, LAMBDA p : p.id /= id)

clear == <<>>

NoResult == [ok |-> "none", error |-> "none"]
NoOp == [op |-> "none", id |-> Null, qty |-> 0, before |-> <<>>]

(* ---------------- initial state ---------------- *)
\* Every page is a URL the browser can be opened on; localStorage may or may
\* not hold a token from an earlier visit.  The first render has happened and
\* its effects are about to run.
HasEffect(p) == p \in {"home", "products", "detail", "admin"}

InitAt(P) ==
    /\ lsToken \in {Null} \cup Tokens
    /\ token = lsToken                       \* useState(localStorage.getItem('token'))
    /\ user = NoUser
    /\ authHeader = NoHeader
    /\ ctx = [token |-> token, user |-> user]
    /\ effToken = 0 - 1
    /\ phase = "childEffects"
    /\ page \in P
    /\ routeId \in IF page = "detail" THEN Ids ELSE {Null}
    /\ pageEffect = HasEffect(page)
    /\ mode = "login"
    /\ authResult = NoResult
    /\ items = <<>>
    /\ hist = NoOp
    /\ pdProduct = Null
    /\ pdLoading = TRUE
    /\ toastMsg = "null"
    /\ pdFetched = "pending"
    /\ adminProducts = {}
    /\ adminLoading = TRUE
    /\ alertMsg = "none"
    /\ href = "app"
    /\ net = EmptyBag

Init == InitAt(Pages)

(* ---------------- commit cycle ---------------- *)
\* Between commits, with nothing blocking the event loop: no alert dialog is
\* open (window.alert is modal), submit is not about to resume with the
\* result of login / register, and the browser has not been sent elsewhere.
Idle ==
    /\ phase = "idle"
    /\ alertMsg = "none"
    /\ authResult = NoResult
    /\ href = "app"

\* updates made in a promise continuation are batched: the render they
\* schedule runs after the continuations that are already queued
Render ==
    /\ phase = "render"
    /\ authResult = NoResult
    /\ ctx' = [token |-> token, user |-> user]
    /\ phase' = IF pageEffect \/ effToken /= token THEN "childEffects" ELSE "idle"
    /\ UNCHANGED <<authVars, effToken, page, routeId, pageEffect, mode, authResult,
                   cartVars, pdVars, adminVars, alertMsg, href, net>>

\* effects of the routed page (lines 121, 153, 186, 308): they run before the
\* effect of the enclosing AuthProvider
ChildEffects ==
    /\ phase = "childEffects"
    /\ phase' = "authEffect"
    /\ pageEffect' = FALSE
    /\ IF ~pageEffect THEN UNCHANGED <<net, pdLoading, pdFetched>>
       ELSE CASE page \in {"home", "products"} ->
                   /\ net' = Issue(net, Req("list", Null, TRUE, FALSE, authHeader))
                   /\ UNCHANGED <<pdLoading, pdFetched>>
              [] page = "detail" ->
                   /\ pdLoading' = TRUE
                   /\ pdFetched' = "pending"
                   /\ net' = Issue(Supersede(net), Req("pdGet", routeId, TRUE, TRUE, authHeader))
              [] page = "admin" ->
                   /\ net' = Issue(net, Req("adminLoad", Null, TRUE, FALSE, authHeader))
                   /\ UNCHANGED <<pdLoading, pdFetched>>
              [] OTHER -> UNCHANGED <<net, pdLoading, pdFetched>>
    /\ UNCHANGED <<authVars, ctx, effToken, page, routeId, mode, authResult, cartVars,
                   pdProduct, toastMsg, adminVars, alertMsg, href>>

\* AuthProvider's effect, lines 54-66, dependency [token]
AuthEffect ==
    /\ phase = "authEffect"
    /\ IF effToken = token
       THEN /\ UNCHANGED <<authVars, effToken>>
            /\ phase' = "idle"
       ELSE /\ effToken' = token
            /\ UNCHANGED token
            /\ IF token /= Null
               THEN /\ lsToken' = token
                    /\ user' = PlaceholderUser
                    /\ authHeader' = Bearer(token)
                    /\ phase' = "render"         \* setUser(new object)
               ELSE /\ lsToken' = Null
                    /\ authHeader' = NoHeader
                    /\ user' = NoUser
                    /\ phase' = IF user = NoUser THEN "idle" ELSE "render"
    /\ UNCHANGED <<ctx, page, routeId, pageEffect, mode, authResult, cartVars, pdVars,
                   adminVars, alertMsg, href, net>>

(* ---------------- routing ---------------- *)
\* the route becomes p (with :id = id); n is the bag of requests before the
\* route change.  /product/:id keeps its component instance when only :id
\* changes, every other change of page unmounts the old page component.
GoTo(p, id, n) ==
    /\ page' = p
    /\ routeId' = IF p = "detail" THEN id ELSE Null
    /\ pageEffect' = (HasEffect(p) /\ (p /= page \/ (p = "detail" /\ id /= routeId)))
    /\ net' = IF p /= page THEN Leave(n, page) ELSE n
    /\ mode' = IF p /= page THEN "login" ELSE mode
    /\ IF p /= page
       THEN /\ pdProduct' = Null /\ pdLoading' = TRUE /\ toastMsg' = "null"
            /\ pdFetched' = "pending"
            /\ adminProducts' = {} /\ adminLoading' = TRUE
       ELSE UNCHANGED <<pdVars, adminVars>>

Navigate(p, id) ==
    /\ Idle
    /\ id \in IF p = "detail" THEN Ids ELSE {Null}
    /\ p /= page \/ id /= routeId
    /\ HasEffect(p) => Room
    /\ GoTo(p, id, net)
    /\ phase' = "render"
    /\ UNCHANGED <<authVars, ctx, effToken, authResult, cartVars, alertMsg, href>>

(* ---------------- session (AuthProvider, Header, AuthPage) ---------------- *)
\* Header's Logout button, line 109: auth.logout(); navigate('/')
Logout ==
    /\ Idle
    /\ ctx.token /= Null
    /\ page /= "home" => Room
    /\ token' = Null
    /\ GoTo("home", Null, net)
    /\ phase' = "render"
    /\ UNCHANGED <<user, lsToken, authHeader, ctx, effToken, authResult, cartVars,
                   alertMsg, href>>

SwitchMode ==
    /\ Idle
    /\ page = "auth"
    /\ mode' = IF mode = "login" THEN "register" ELSE "login"
    /\ UNCHANGED <<authVars, ctx, effToken, phase, page, routeId, pageEffect,
                   authResult, cartVars, pdVars, adminVars, alertMsg, href, net>>

\* AuthPage.submit up to the await, lines 275-281 and 69 / 74
Submit ==
    /\ Idle
    /\ page = "auth"
    /\ Room
    /\ net' = Issue(net, Req(mode, Null, TRUE, FALSE, authHeader))
    /\ UNCHANGED <<authVars, ctx, effToken, phase, page, routeId, pageEffect, mode,
                   authResult, cartVars, pdVars, adminVars, alertMsg, href>>

\* what the backend may answer to login / register
AuthOutcomes ==
    {[kind |-> "token", token |-> t, error |-> "none"] : t \in Tokens}
    \cup {[kind |-> "error", token |-> Null, error |-> e] : e \in ServerErrors}
    \cup {[kind |-> "empty", token |-> Null, error |-> "none"],
          [kind |-> "rejected", token |-> Null, error |-> "none"]}

Fallback(k) == IF k = "login" THEN "Login failed" ELSE "Register failed"

\* the rest of login / register, lines 70-71 and 75-76: the result goes
\* back to submit, which resumes next
AuthReply(r, o) ==
    /\ Idle
    /\ r \in DOMAIN net
    /\ r.k \in {"login", "register"}
    /\ net' = Consume(net, r)
    /\ CASE o.kind = "token" ->
              /\ token' = o.token
              /\ authResult' = [ok |-> "true", error |-> "none"]
              /\ phase' = "render"
         [] o.kind \in {"error", "empty"} ->
              /\ authResult' = [ok |-> "false",
                                error |-> IF o.kind = "error" THEN o.error ELSE Fallback(r.k)]
              /\ UNCHANGED <<token, phase>>
         [] OTHER ->         \* axios.post rejects: the await throws out of login
              /\ authResult' = [ok |-> "threw", error |-> "none"]
              /\ UNCHANGED <<token, phase>>
    /\ UNCHANGED <<user, lsToken, authHeader, ctx, effToken, page, routeId, pageEffect,
                   mode, cartVars, pdVars, adminVars, alertMsg, href>>

\* the rest of AuthPage.submit, lines 279 and 282; an exception thrown by
\* login / register leaves submit without reaching either branch
SubmitResume ==
    /\ authResult /= NoResult
    /\ authResult' = NoResult
    /\ CASE authResult.ok = "true" ->
              /\ GoTo("home", Null, net)
              /\ phase' = "render"
              /\ UNCHANGED alertMsg
         [] authResult.ok = "false" ->
              /\ alertMsg' = authResult.error
              /\ UNCHANGED <<phase, page, routeId, pageEffect, mode, pdVars, adminVars, net>>
         [] OTHER ->
              UNCHANGED <<phase, page, routeId, pageEffect, mode, pdVars, adminVars, net,
                          alertMsg>>
    /\ UNCHANGED <<authVars, ctx, effToken, cartVars, href>>

\* the user closes the alert dialog
Dismiss ==
    /\ alertMsg /= "none"
    /\ alertMsg' = "none"
    /\ UNCHANGED <<authVars, ctx, effToken, phase, page, routeId, pageEffect, mode,
                   authResult, cartVars, pdVars, adminVars, href, net>>

(* ---------------- catalog views ---------------- *)
\* Home / Products: the answer to GET /api/products fills a list that no
\* other operation reads (lines 121, 153)
ListReply(r) ==
    /\ Idle
    /\ r \in DOMAIN net
    /\ r.k = "list"
    /\ net' = Consume(net, r)
    /\ UNCHANGED <<authVars, ctx, effToken, phase, page, routeId, pageEffect, mode,
                   authResult, cartVars, pdVars, adminVars, alertMsg, href>>

\* ProductDetail, line 186: .then(setProduct).catch(() => {}).finally(setLoading(false));
\* ok is TRUE when the backend answers with the product of the requested id
PdReply(r, ok) ==
    /\ Idle
    /\ r \in DOMAIN net
    /\ r.k = "pdGet"
    /\ net' = Consume(net, r)
    /\ IF r.live
       THEN /\ pdProduct' = IF ok THEN r.id ELSE pdProduct
            /\ pdLoading' = FALSE
       ELSE UNCHANGED <<pdProduct, pdLoading>>
    /\ pdFetched' = IF r.cur THEN (IF ok THEN "ok" ELSE "failed") ELSE pdFetched
    /\ UNCHANGED <<authVars, ctx, effToken, phase, page, routeId, pageEffect, mode,
                   authResult, cartVars, toastMsg, adminVars, alertMsg, href>>

\* useToast's timer, line 89
ToastTimeout ==
    /\ Idle
    /\ toastMsg /= "null"
    /\ toastMsg' = "null"
    /\ UNCHANGED <<authVars, ctx, effToken, phase, page, routeId, pageEffect, mode,
                   authResult, cartVars, pdProduct, pdLoading, pdFetched, adminVars,
                   alertMsg, href, net>>

(* ---------------- checkout ---------------- *)
\* what the backend may answer to POST /api/checkout
CheckoutOutcomes ==
    {[kind |-> "url", url |-> u, error |-> "none"] : u \in Urls}
    \cup {[kind |-> "error", url |-> "none", error |-> e] : e \in ServerErrors}
    \cup {[kind |-> "empty", url |-> "none", error |-> "none"],
          [kind |-> "rejected", url |-> "none", error |-> "none"]}

\* the message of a checkout that did not produce a download link
CheckoutError(o) ==
    CASE o.kind = "error" -> o.error
      [] o.kind = "empty" -> "Checkout failed"
      [] OTHER -> "Checkout error"

\* ProductDetail.buyNow up to the await, lines 188-191; the button is rendered
\* only when the view is neither loading nor not-found (lines 201-202, 215)
BuyNow ==
    /\ Idle
    /\ page = "detail"
    /\ ~pdLoading
    /\ pdProduct /= Null
    /\ IF ctx.token = Null
       THEN /\ toastMsg' = "Please login first"
            /\ UNCHANGED net
       ELSE /\ Room
            /\ net' = Issue(net, Req("buyNow", routeId, TRUE, FALSE, authHeader))
            /\ UNCHANGED toastMsg
    /\ UNCHANGED <<authVars, ctx, effToken, phase, page, routeId, pageEffect, mode,
                   authResult, cartVars, pdProduct, pdLoading, pdFetched, adminVars,
                   alertMsg, href>>

\* the rest of buyNow, lines 192-198
BuyNowReply(r, o) ==
    /\ Idle
    /\ r \in DOMAIN net
    /\ r.k = "buyNow"
    /\ net' = Consume(net, r)
    /\ IF o.kind = "url"
       THEN /\ href' = o.url
            /\ UNCHANGED toastMsg
       ELSE /\ toastMsg' = IF r.live THEN CheckoutError(o) ELSE toastMsg
            /\ UNCHANGED href
    /\ UNCHANGED <<authVars, ctx, effToken, phase, page, routeId, pageEffect, mode,
                   authResult, cartVars, pdProduct, pdLoading, pdFetched, adminVars,
                   alertMsg>>

\* doCheckout without its session check
DoCheckoutNoGuard ==
    /\ Idle
    /\ page = "checkout"
    /\ IF Len(items) = 0
       THEN /\ alertMsg' = "Cart empty"
            /\ UNCHANGED net
       ELSE /\ Room
            /\ net' = Issue(net, Req("doCheckout", items[1].id, TRUE, FALSE, authHeader))
            /\ UNCHANGED alertMsg
    /\ UNCHANGED <<authVars, ctx, effToken, phase, page, routeId, pageEffect, mode,
                   authResult, cartVars, pdVars, adminVars, href>>

\* Checkout.doCheckout up to the await, lines 375-380
DoCheckout ==
    /\ Idle
    /\ page = "checkout"
    /\ IF ctx.token = Null
       THEN /\ alertMsg' = "Login first"
            /\ UNCHANGED net
       ELSE IF Len(items) = 0
       THEN /\ alertMsg' = "Cart empty"
            /\ UNCHANGED net
       ELSE /\ Room
            /\ net' = Issue(net, Req("doCheckout", items[1].id, TRUE, FALSE, authHeader))
            /\ UNCHANGED alertMsg
    /\ UNCHANGED <<authVars, ctx, effToken, phase, page, routeId, pageEffect, mode,
                   authResult, cartVars, pdVars, adminVars, href>>

\* doCheckout with clear() after the if instead of inside it
DoCheckoutReplyClears(r, o) ==
    /\ Idle
    /\ r \in DOMAIN net
    /\ r.k = "doCheckout"
    /\ net' = Consume(net, r)
    /\ items' = clear
    /\ IF o.kind = "url"
       THEN /\ href' = o.url
            /\ UNCHANGED alertMsg
       ELSE /\ alertMsg' = CheckoutError(o)
            /\ UNCHANGED href
    /\ UNCHANGED <<authVars, ctx, effToken, phase, page, routeId, pageEffect, mode,
                   authResult, hist, pdVars, adminVars>>

\* the rest of doCheckout, lines 381-385
DoCheckoutReply(r, o) ==
    /\ Idle
    /\ r \in DOMAIN net
    /\ r.k = "doCheckout"
    /\ net' = Consume(net, r)
    /\ IF o.kind = "url"
       THEN /\ href' = o.url
            /\ items' = clear
            /\ UNCHANGED alertMsg
       ELSE /\ alertMsg' = CheckoutError(o)
            /\ UNCHANGED <<href, items>>
    /\ UNCHANGED <<authVars, ctx, effToken, phase, page, routeId, pageEffect, mode,
                   authResult, hist, pdVars, adminVars>>

(* ---------------- admin ---------------- *)
\* answer to AdminPage.load, line 309: the product list, or a failure
AdminLoadReply(r, ok, list) ==
    /\ Idle
    /\ r \in DOMAIN net
    /\ r.k = "adminLoad"
    /\ net' = Consume(net, r)
    /\ IF r.live
       THEN /\ adminProducts' = IF ok THEN list ELSE adminProducts
            /\ adminLoading' = FALSE
       ELSE UNCHANGED adminVars
    /\ UNCHANGED <<authVars, ctx, effToken, phase, page, routeId, pageEffect, mode,
                   authResult, cartVars, pdVars, alertMsg, href>>

\* AdminPage.create up to the await, lines 311-315
Create ==
    /\ Idle
    /\ page = "admin"
    /\ IF ctx.token = Null
       THEN /\ alertMsg' = "Login as admin"
            /\ UNCHANGED net
       ELSE /\ Room
            /\ net' = Issue(net, Req("create", Null, TRUE, FALSE, Bearer(ctx.token)))
            /\ UNCHANGED alertMsg
    /\ UNCHANGED <<authVars, ctx, effToken, phase, page, routeId, pageEffect, mode,
                   authResult, cartVars, pdVars, adminVars, href>>

\* the rest of create, line 316; ok is TRUE when the answer carries an id
CreateReply(r, ok) ==
    /\ Idle
    /\ r \in DOMAIN net
    /\ r.k = "create"
    /\ alertMsg' = IF ok THEN "Created" ELSE "Create failed"
    /\ net' = IF ok
              THEN Issue(Consume(net, r), Req("adminLoad", Null, r.live, FALSE, authHeader))
              ELSE Consume(net, r)
    /\ UNCHANGED <<authVars, ctx, effToken, phase, page, routeId, pageEffect, mode,
                   authResult, cartVars, pdVars, adminVars, href>>

\* AdminPage.uploadFile up to the await, lines 319-321; the file input of a
\* product is rendered once the list is loaded (lines 341-348)
UploadFile(id) ==
    /\ Idle
    /\ page = "admin"
    /\ ~adminLoading
    /\ id \in adminProducts
    /\ Room
    /\ net' = Issue(net, Req("upload", id, TRUE, FALSE, Bearer(ctx.token)))
    /\ UNCHANGED <<authVars, ctx, effToken, phase, page, routeId, pageEffect, mode,
                   authResult, cartVars, pdVars, adminVars, alertMsg, href>>

\* the rest of uploadFile, lines 322-323; ok is TRUE when the answer carries a filePath
UploadReply(r, ok) ==
    /\ Idle
    /\ r \in DOMAIN net
    /\ r.k = "upload"
    /\ alertMsg' = IF ok THEN "Uploaded" ELSE "Upload failed"
    /\ net' = Issue(Consume(net, r), Req("adminLoad", Null, r.live, FALSE, authHeader))
    /\ UNCHANGED <<authVars, ctx, effToken, phase, page, routeId, pageEffect, mode,
                   authResult, cartVars, pdVars, adminVars, href>>

(* ---------------- cart operations ---------------- *)
Record(op, id, qty) == hist' = [op |-> op, id |-> id, qty |-> qty, before |-> items]
Forget == UNCHANGED hist

\* add / remove / clear are the operations CartContext exposes to any consumer.
\* A change of `items` re-renders without running any effect.  The history
\* variable is left to the specification: Record keeps it, Forget does not.
Add(pid, qty) ==
    /\ Idle
    /\ items' = add(items, pid, qty)
    /\ \A i \in 1..Len(items') : items'[i].qty \in (0 - MaxQty)..MaxQty
    /\ UNCHANGED <<authVars, ctx, effToken, phase, page, routeId, pageEffect, mode,
                   authResult, pdVars, adminVars, alertMsg, href, net>>

Remove(id) ==
    /\ Idle
    /\ items' = remove(items, id)
    /\ UNCHANGED <<authVars, ctx, effToken, phase, page, routeId, pageEffect, mode,
                   authResult, pdVars, adminVars, alertMsg, href, net>>

Clear ==
    /\ Idle
    /\ items' = clear
    /\ UNCHANGED <<authVars, ctx, effToken, phase, page, routeId, pageEffect, mode,
                   authResult, pdVars, adminVars, alertMsg, href, net>>

\* the commit cycle, which every specification below contains
Commit ==
    \/ Render
    \/ ChildEffects
    \/ AuthEffect

\* answers to the fetches the pages issue when they mount
MountReplies ==
    \/ \E r \in DOMAIN net : ListReply(r)
    \/ \E r \in DOMAIN net, ok \in BOOLEAN : PdReply(r, ok)
    \/ \E r \in DOMAIN net, ok \in BOOLEAN, list \in SUBSET Ids : AdminLoadReply(r, ok, list)

\* login, register and logout
Session ==
    \/ Logout
    \/ SwitchMode
    \/ Submit
    \/ \E r \in DOMAIN net, o \in AuthOutcomes : AuthReply(r, o)
    \/ SubmitResume
    \/ Dismiss

\* product detail and checkout
Purchase ==
    \/ ToastTimeout
    \/ BuyNow
    \/ \E r \in DOMAIN net, o \in CheckoutOutcomes : BuyNowReply(r, o)
    \/ DoCheckout
    \/ \E r \in DOMAIN net, o \in CheckoutOutcomes : DoCheckoutReply(r, o)

\* the admin panel
Admin ==
    \/ Create
    \/ \E r \in DOMAIN net, ok \in BOOLEAN : CreateReply(r, ok)
    \/ \E id \in Ids : UploadFile(id)
    \/ \E r \in DOMAIN net, ok \in BOOLEAN : UploadReply(r, ok)

\* the cart with the default quantity
CartDefault ==
    \/ \E pid \in Ids : Add(pid, 1) /\ Forget
    \/ \E id \in Ids : Remove(id) /\ Forget
    \/ Clear /\ Forget

(* The whole application. *)
Next ==
    \/ Commit
    \/ \E p \in Pages, id \in Ids \cup {Null} : Navigate(p, id)
    \/ Session
    \/ MountReplies
    \/ Purchase
    \/ Admin
    \/ CartDefault

Spec == Init /\ [][Next]_vars

(* The cart on its own: every operation of CartContext with every quantity. *)
CartPages == {"cart", "checkout"}
InitCart == InitAt(CartPages)

NextCart ==
    \/ Commit
    \/ \E pid \in Ids, qty \in Qtys : Add(pid, qty) /\ Record("add", pid, qty)
    \/ \E id \in Ids : Remove(id) /\ Record("remove", id, 0)
    \/ Clear /\ Record("clear", Null, 0)

SpecCart == InitCart /\ [][NextCart]_vars

(* The purchase paths: product detail, cart, checkout, with login and logout. *)
ShopPages == {"home", "detail", "cart", "checkout", "auth"}
InitShop == InitAt(ShopPages)

NextShop ==
    \/ Commit
    \/ \E p \in ShopPages, id \in Ids \cup {Null} : Navigate(p, id)
    \/ Session
    \/ \E r \in DOMAIN net : ListReply(r)
    \/ \E r \in DOMAIN net, ok \in BOOLEAN : PdReply(r, ok)
    \/ Purchase
    \/ CartDefault

SpecShop == InitShop /\ [][NextShop]_vars

(* The cart-based checkout on its own: the cart, the checkout page and the
   answers to its request, for a visit whose session does not change. *)
InitCheckout == InitAt(CartPages)

NextCheckout ==
    \/ Commit
    \/ \E p \in CartPages : Navigate(p, Null)
    \/ DoCheckout
    \/ \E r \in DOMAIN net, o \in CheckoutOutcomes : DoCheckoutReply(r, o)
    \/ Dismiss
    \/ CartDefault

SpecCheckout == InitCheckout /\ [][NextCheckout]_vars

(* ======================= properties ======================= *)
TypeOK ==
    /\ token \in {Null} \cup Tokens
    /\ user \in {NoUser, PlaceholderUser}
    /\ phase \in {"idle", "render", "childEffects", "authEffect"}
    /\ InFlight(net) <= MaxInflight

\* r is sent by the step: one more copy of it is in flight after than before
Issued(r) == CopiesIn(r, net') > CopiesIn(r, net)

CheckoutKinds == {"buyNow", "doCheckout"}

(* C1: a POST /api/checkout leaves buyNow or doCheckout only in a step taken
   while the session token is present; a click on either button without a
   token sends nothing and only shows the login prompt. *)
C1_CheckoutNeedsToken ==
    [][ /\ \A r \in DOMAIN net' : (Issued(r) /\ r.k \in CheckoutKinds) => token /= Null
        /\ (BuyNow /\ token = Null) =>
              (net' = net /\ toastMsg' = "Please login first" /\ href' = href)
        /\ (DoCheckout /\ token = Null) =>
              (net' = net /\ alertMsg' = "Login first" /\ href' = href /\ items' = items)
      ]_vars

\* doCheckout was clicked with a filled cart and no session: only the prompt
C1_Witness ==
    /\ token = Null
    /\ page = "checkout"
    /\ Len(items) > 0
    /\ alertMsg = "Login first"
    /\ net = EmptyBag

(* C2: every request is sent with the credential of the session as it is at
   that moment: 'Bearer <token>' while a token is present, no Authorization
   header while it is absent. *)
C2_CallsCarryToken ==
    [][ \A r \in DOMAIN net' :
          Issued(r) => r.cred = (IF token = Null THEN NoHeader ELSE Bearer(token)) ]_vars

(* C3: the answer to doCheckout's request: with a downloadUrl the browser is
   sent to that URL and the cart is emptied; otherwise (an answer without
   downloadUrl, or a rejected request) the cart is left as it was and an alert
   shows the server's error when there is one, else a generic message. *)
C3_CheckoutOutcome ==
    [][ \A r \in DOMAIN net, o \in CheckoutOutcomes :
          DoCheckoutReply(r, o) =>
             IF o.kind = "url"
             THEN href' = o.url /\ items' = <<>>
             ELSE /\ items' = items
                  /\ href' = href
                  /\ alertMsg' = (IF o.kind = "error" THEN o.error
                                  ELSE IF o.kind = "empty" THEN "Checkout failed"
                                  ELSE "Checkout error") ]_vars

\* a checkout of a two-line cart was rejected: the alert is up, the cart intact
C3_Witness ==
    /\ alertMsg = "Checkout error"
    /\ Len(items) = 2
    /\ href = "app"

(* C4: when the call of login / register fails (an answer without a token, or
   a rejected request) the caller gets {ok: false, error: <message>} and the
   token, the user, local storage and the Authorization header are unchanged;
   when it succeeds the token is stored and the caller gets {ok: true}. *)
C4_AuthResult ==
    [][ \A r \in DOMAIN net, o \in AuthOutcomes :
          AuthReply(r, o) =>
             IF o.kind = "token"
             THEN token' = o.token /\ authResult'.ok = "true"
             ELSE /\ authResult'.ok = "false"
                  /\ authResult'.error /= "none"
                  /\ UNCHANGED authVars ]_vars

(* C5: the cart never holds two lines of one product id, and add(product, qty)
   on a product already in the cart adds qty to that line's quantity, adds no
   line and leaves every other line as it was. *)
C5_AddMerges ==
    /\ \A i, j \in 1..Len(items) : items[i].id = items[j].id => i = j
    /\ (hist.op = "add" /\ find(hist.before, hist.id)) =>
          /\ Len(items) = Len(hist.before)
          /\ \A i \in 1..Len(items) :
                items[i] = IF hist.before[i].id = hist.id
                           THEN Line(hist.id, hist.before[i].qty + hist.qty)
                           ELSE hist.before[i]

\* the same product added a second time, with another product in the cart
C5_Witness ==
    /\ hist = [op |-> "add", id |-> 1, qty |-> 1, before |-> <<Line(1, 1), Line(2, 1)>>]
    /\ items = <<Line(1, 2), Line(2, 1)>>

\* the lines of a cart that remove(id) is to keep, by position
Kept(before, id) == {i \in 1..Len(before) : before[i].id /= id}
Dropped(before, id, i) == Cardinality({j \in 1..i : before[j].id = id})

(* C6: remove(id) takes out the line of that product id and nothing else: the
   other lines keep their product, quantity and order, and the cart is
   unchanged when no line has that id. *)
C6_RemoveExact ==
    hist.op = "remove" =>
       /\ Len(items) = Cardinality(Kept(hist.before, hist.id))
       /\ \A i \in Kept(hist.before, hist.id) :
             items[i - Dropped(hist.before, hist.id, i)] = hist.before[i]
       /\ ~find(hist.before, hist.id) => items = hist.before

\* the first of two lines was removed
C6_Witness ==
    /\ hist.op = "remove"
    /\ Len(hist.before) = 2
    /\ hist.before[1].id = hist.id
    /\ items = <<hist.before[2]>>

(* C7: no POST /api/admin/products and no POST /api/admin/products/:id/file
   is sent while the session token is absent. *)
C7_AdminNeedsToken ==
    [][ \A r \in DOMAIN net' :
          (Issued(r) /\ r.k \in {"create", "upload"}) => token /= Null ]_vars

(* C8: in every rendered context value, a null token comes with a null user. *)
C8_NoTokenNoUser == ctx.token = Null => ctx.user = NoUser

(* C9: no cart line has a quantity below 1, whatever quantities add is
   called with. *)
C9_QtyAtLeastOne == \A i \in 1..Len(items) : items[i].qty >= 1

(* C10: whenever ProductDetail is not loading, the fetch for the current
   route id has finished and the view shows its product, or not-found when
   that fetch failed; and buyNow posts the id of the product shown. *)
C10_DetailShowsCurrent ==
    /\ [](( /\ page = "detail" /\ phase = "idle" /\ ~pdLoading ) =>
            \/ pdFetched = "ok" /\ pdProduct = routeId
            \/ pdFetched = "failed" /\ pdProduct = Null)
    /\ [][ \A r \in DOMAIN net' : (Issued(r) /\ r.k = "buyNow") => r.id = pdProduct ]_vars

\* the requests in flight that the mounted instance of page v issued
Own(v) == [r \in {x \in DOMAIN net : x.live /\ x.k \in KindsOf(v)} |-> net[r]]

(* C11: a view never has two of its own requests in flight at once, whatever
   the user clicks before the previous answer has arrived. *)
C11_OneCallPerView == \A v \in Pages : BagCardinality(Own(v)) <= 1

====
